---- MODULE Spec2Model ----
(***************************************************************************)
(* Model of cmd/changelog/generate.go: GenerateReleaseNotes (state-file    *)
(* resumption, the CompareCommits walk, classification, StoreState),      *)
(* ChangeLog.PrintReleaseNotes and Config.Sanitize.                        *)
(*                                                                         *)
(* Commits of the base..head history are numbered 1..hist in base-to-head  *)
(* order (1 is the oldest commit after base, hist is head).  The remote    *)
(* service answers CompareCommits(base, h) with the last pageSize commits  *)
(* ending at h, or with the whole range 1..h when that is shorter.         *)
(***************************************************************************)
EXTENDS Integers, Sequences, FiniteSets, TLC

\* ------------------------------------------------------------------ bounds
MaxCommits == 5

MaxPage == 4

MaxStored == 2

MaxEntries == 3

MaxName == 3

\* ------------------------------------------------------------- go values
\* GetSHA() of a nil SHA, and the initial prevHead (line 114): ""
EmptySHA == 0

NoFile == [exists |-> FALSE]

NoResult == "none"

\* a Config with every field at its zero value
NoConfig ==
    [RepoName |-> <<>>, Owner |-> <<>>, Repo |-> <<>>, Base |-> <<>>,
     Head |-> <<>>, CurrVer |-> <<>>, StateFile |-> <<>>, LastStable |-> <<>>]

VARIABLES
    hist,            \* number of commits between cfg.Base and the head reference
    pageSize,        \* page size of the remote service
    stateFile,       \* what is at cfg.StateFile
    pc,              \* position in GenerateReleaseNotes
    cfgHead,         \* cfg.Head, as the commit it names
    cont,            \* line 113
    prevHead,        \* line 114
    shas,            \* line 101
    backportPRs,     \* line 99
    listOfPRs,       \* line 100
    prsWithUpstream, \* line 158, then ChangeLog.prsWithUpstream
    listOfPrs,       \* line 158, then ChangeLog.listOfPrs
    leftShas,        \* line 158
    err,             \* line 158: did GeneratePatchRelease fail
    err2,            \* line 163: did StoreState fail
    result,          \* what GenerateReleaseNotes returned
    log,             \* calls made to the collaborators, in order
    lastStable,      \* ChangeLog.Config.LastStable
    given,           \* the ChangeLog as PrintReleaseNotes received it
    printPc,         \* position in PrintReleaseNotes
    labelIdx,        \* index of releaseLabel in releaseNotesOrder, from 1
    stdout,          \* lines written to os.Stdout
    stderr,          \* strings written to os.Stderr
    printCalls,      \* calls of PrintReleaseNotes on the ChangeLog so far
    mark,            \* lengths of stdout and stderr when the last call began
    cfg,             \* the caller's Config
    sanPc,           \* position of the caller around cfg.Sanitize()
    sanErr,          \* what cfg.Sanitize() returned
    target           \* owner and repository handed to CompareCommits

genVars == <<hist, pageSize, stateFile, pc, cfgHead, cont, prevHead, shas,
             backportPRs, listOfPRs, prsWithUpstream, listOfPrs, leftShas,
             err, err2, result, log>>

printVars == <<lastStable, given, printPc, labelIdx, stdout, stderr,
               printCalls, mark>>

sanVars == <<cfg, sanPc, sanErr, target>>

vars == <<genVars, printVars, sanVars>>

\* ---------------------------------------------------------------- helpers
Last(s) == s[Len(s)]

Range(s) == {s[i] : i \in 1..Len(s)}

NoDup(s) == \A i, j \in 1..Len(s) : i # j => s[i] # s[j]

RECURSIVE Reverse(_)
Reverse(s) == IF s = <<>> THEN <<>> ELSE Append(Reverse(Tail(s)), Head(s))

\* the history 1..h, base to head
Ascending(lo, hi) == [i \in 1..(hi - lo + 1) |-> lo + i - 1]

SeqsUpTo(S, n) == UNION {[1..k -> S] : k \in 0..n}

\* -------------------------------------------------- the remote collaborator
\* ghClient.Repositories.CompareCommits(base, head): commits base to head, a
\* contiguous run ending at head, truncated to the service's page size
PageCompare(head, size) ==
    Ascending(IF head > size THEN head - size + 1 ELSE 1, head)

\* ------------------------------------------------------------ the walk
\* lines 124-126 and 146-148: append unless GetSHA() is ""
AppendSHA(list, sha) == IF sha # EmptySHA THEN Append(list, sha) ELSE list

\* cc.Commits[i], 0-based; InRange is Go's bounds check
InRange(commits, i) == i >= 0 /\ i < Len(commits)

At(commits, i) == commits[i + 1]

\* line 144-149: for i := start; i != 0; i-- { shas = append(shas, cc.Commits[i]) }
\* a record [panic, shas]
RECURSIVE CopyLoop(_, _, _)
CopyLoop(commits, i, list) ==
    IF i = 0 THEN [panic |-> FALSE, shas |-> list]
    ELSE IF ~InRange(commits, i) THEN [panic |-> TRUE, shas |-> list]
    ELSE CopyLoop(commits, i - 1, AppendSHA(list, At(commits, i)))

\* lines 129-136 without the "start = start - 1" of a continued walk
StartIndexKeepsBoundary(commits, c) == Len(commits) - 1

\* lines 129-136
StartIndex(commits, c) == IF c THEN (Len(commits) - 1) - 1 ELSE Len(commits) - 1

\* line 122 with the test never true: the loop has no other exit
StalledNever(commits, prev) == FALSE

\* line 122: the stall test
Stalled(commits, prev) == prev = At(commits, Len(commits) - 1)

\* lines 122-152, one iteration after a successful CompareCommits:
\* kind is "panic" (index out of range), "break" (line 127) or "next"
WalkIteration(commits, list, c, prev) ==
    IF ~InRange(commits, Len(commits) - 1)
    THEN [kind |-> "panic", shas |-> list, head |-> EmptySHA, prev |-> prev]
    ELSE IF Stalled(commits, prev)
    THEN [kind |-> "break", shas |-> AppendSHA(list, At(commits, 0)),
          head |-> EmptySHA, prev |-> prev]
    ELSE LET copied == CopyLoop(commits, StartIndex(commits, c), list)
         IN IF copied.panic \/ Len(copied.shas) = 0
            THEN [kind |-> "panic", shas |-> copied.shas, head |-> EmptySHA,
                  prev |-> prev]
            ELSE [kind |-> "next", shas |-> copied.shas,
                  head |-> Last(copied.shas),
                  prev |-> At(commits, Len(commits) - 1)]

\* ------------------------------------------------ pull requests, mappings
\* types.PullRequests / types.BackportPRs with no entry
EmptyMap == <<>>

\* a types.PullRequest: its ReleaseLabel, BackportBranches and ReleaseNote
\* (a note is the rank of its lower-case text among the notes)
PR(label, branches, note) ==
    [label |-> label, branches |-> branches, note |-> note]

\* what the classifier and a state file hand to GenerateReleaseNotes
GenFlat == {EmptyMap, (1 :> PR("release-note/bug", <<>>, 1))}

GenBackports == {EmptyMap, (3 :> (1 :> PR("release-note/bug", <<>>, 1)))}

StoredShas == SeqsUpTo(1..2, MaxStored)

StateFiles ==
    {NoFile}
    \cup {[exists |-> TRUE, ok |-> FALSE, bp |-> EmptyMap, prs |-> EmptyMap,
           shas |-> <<>>]}
    \cup [exists : {TRUE}, ok : {TRUE}, bp : GenBackports, prs : GenFlat,
          shas : StoredShas]

Call(name, args) == [call |-> name, args |-> args]

Calls(name) == {i \in 1..Len(log) : log[i].call = name}

\* ----------------------------------------------------- GenerateReleaseNotes
Init ==
    /\ hist \in 0..MaxCommits
    /\ pageSize \in 1..MaxPage
    /\ stateFile \in StateFiles
    /\ pc = "start"
    /\ cfgHead = hist
    /\ cont = FALSE
    /\ prevHead = EmptySHA
    /\ shas = <<>>
    /\ backportPRs = EmptyMap
    /\ listOfPRs = EmptyMap
    /\ prsWithUpstream = EmptyMap
    /\ listOfPrs = EmptyMap
    /\ leftShas = <<>>
    /\ err = FALSE
    /\ err2 = FALSE
    /\ result = NoResult
    /\ log = <<>>
    /\ lastStable = <<>>
    /\ given = [bp |-> EmptyMap, flat |-> EmptyMap]
    /\ printPc = "idle"
    /\ labelIdx = 0
    /\ stdout = <<>>
    /\ stderr = <<>>
    /\ printCalls = 0
    /\ mark = <<0, 0>>
    /\ cfg = NoConfig
    /\ sanPc = "idle"
    /\ sanErr = NoResult
    /\ target = <<>>

\* line 108 written with := : the loaded values shadowed, the outer ones left empty
LoadedShadowed(file) == [bp |-> EmptyMap, prs |-> EmptyMap, shas |-> <<>>]

\* persistence.LoadState's values as GenerateReleaseNotes takes them (line 108)
Loaded(file) == [bp |-> file.bp, prs |-> file.prs, shas |-> file.shas]

\* lines 104-111: a state file exists
LoadState ==
    /\ UNCHANGED <<printVars, sanVars>>
    /\ pc = "start"
    /\ stateFile.exists
    /\ log' = Append(log, Call("LoadState", <<>>))
    /\ IF stateFile.ok
       THEN /\ backportPRs' = Loaded(stateFile).bp
            /\ listOfPRs' = Loaded(stateFile).prs
            /\ shas' = Loaded(stateFile).shas
            /\ pc' = "classify"
            /\ UNCHANGED result
       ELSE /\ result' = "StateReadError"
            /\ pc' = "done"
            /\ UNCHANGED <<backportPRs, listOfPRs, shas>>
    /\ UNCHANGED <<hist, pageSize, stateFile, cfgHead, cont, prevHead,
                   prsWithUpstream, listOfPrs, leftShas, err, err2>>

\* lines 112-114: no state file
StartWalk ==
    /\ UNCHANGED <<printVars, sanVars>>
    /\ pc = "start"
    /\ ~stateFile.exists
    /\ cont' = FALSE
    /\ prevHead' = EmptySHA
    /\ pc' = "walk"
    /\ UNCHANGED <<hist, pageSize, stateFile, cfgHead, shas, backportPRs,
                   listOfPRs, prsWithUpstream, listOfPrs, leftShas, err, err2,
                   result, log>>

\* lines 118-121: CompareCommits fails
CompareFails ==
    /\ UNCHANGED <<printVars, sanVars>>
    /\ pc = "walk"
    /\ log' = Append(log, Call("CompareCommits", <<cfgHead>>))
    /\ result' = "WalkError"
    /\ pc' = "done"
    /\ UNCHANGED <<hist, pageSize, stateFile, cfgHead, cont, prevHead, shas,
                   backportPRs, listOfPRs, prsWithUpstream, listOfPrs,
                   leftShas, err, err2>>

\* the CompareCommits calls the model follows a run for
MaxCalls == MaxCommits + 3

\* lines 116-153: one iteration of the loop with a page returned
WalkPage ==
    /\ UNCHANGED <<printVars, sanVars>>
    /\ pc = "walk"
    /\ Len(log) < MaxCalls
    /\ log' = Append(log, Call("CompareCommits", <<cfgHead>>))
    /\ LET it == WalkIteration(PageCompare(cfgHead, pageSize), shas, cont,
                               prevHead)
       IN /\ shas' = it.shas
          /\ IF it.kind = "next"
             THEN /\ cfgHead' = it.head
                  /\ cont' = TRUE
                  /\ prevHead' = it.prev
                  /\ pc' = "walk"
             ELSE /\ pc' = (IF it.kind = "break" THEN "classify" ELSE "panic")
                  /\ UNCHANGED <<cfgHead, cont, prevHead>>
    /\ UNCHANGED <<hist, pageSize, stateFile, backportPRs, listOfPRs,
                   prsWithUpstream, listOfPrs, leftShas, err, err2, result>>

\* the commits GeneratePatchRelease hands back as not yet classified
Suffixes(list) == {SubSeq(list, k, Len(list)) : k \in 1..(Len(list) + 1)}

\* lines 156-162: github.GeneratePatchRelease, a collaborator
Classify ==
    /\ UNCHANGED <<printVars, sanVars>>
    /\ pc = "classify"
    /\ log' = Append(log, Call("GeneratePatchRelease",
                               <<backportPRs, listOfPRs, shas>>))
    /\ \E bp \in GenBackports, fl \in GenFlat, left \in Suffixes(shas),
          failed \in BOOLEAN :
          /\ prsWithUpstream' = bp
          /\ listOfPrs' = fl
          /\ leftShas' = left
          /\ err' = failed
    /\ pc' = "store"
    /\ UNCHANGED <<hist, pageSize, stateFile, cfgHead, cont, prevHead, shas,
                   backportPRs, listOfPRs, err2, result>>

\* line 163-168: persistence.StoreState, which may fail
StoreState ==
    /\ UNCHANGED <<printVars, sanVars>>
    /\ pc = "store"
    /\ log' = Append(log, Call("StoreState",
                               <<prsWithUpstream, listOfPrs, leftShas>>))
    /\ \E failed \in BOOLEAN :
          /\ err2' = failed
          /\ stateFile' = IF failed THEN stateFile
                          ELSE [exists |-> TRUE, ok |-> TRUE,
                                bp |-> prsWithUpstream, prs |-> listOfPrs,
                                shas |-> leftShas]
    /\ pc' = "return"
    /\ UNCHANGED <<hist, pageSize, cfgHead, cont, prevHead, shas, backportPRs,
                   listOfPRs, prsWithUpstream, listOfPrs, leftShas, err,
                   result>>

\* lines 169-179 with err2 returned when StoreState failed
OutcomeStoreMasks(classErr, storeErr) ==
    IF storeErr THEN "StateWriteError"
    ELSE IF classErr THEN "ClassificationError" ELSE "ChangeLog"

\* lines 169-179: what the run returns after the classifier and the store
Outcome(classErr, storeErr) ==
    IF classErr THEN "ClassificationError" ELSE "ChangeLog"

Return ==
    /\ UNCHANGED <<printVars, sanVars>>
    /\ pc = "return"
    /\ result' = Outcome(err, err2)
    /\ pc' = "done"
    /\ UNCHANGED <<hist, pageSize, stateFile, cfgHead, cont, prevHead, shas,
                   backportPRs, listOfPRs, prsWithUpstream, listOfPrs,
                   leftShas, err, err2, log>>

Next ==
    \/ LoadState
    \/ StartWalk
    \/ CompareFails
    \/ WalkPage
    \/ Classify
    \/ StoreState
    \/ Return

Spec == Init /\ [][Next]_vars

\* the runs in which CompareCommits never fails; the loop of lines 116-153
\* runs on by itself, so an enabled iteration is taken
NextNoFail ==
    \/ LoadState
    \/ StartWalk
    \/ WalkPage
    \/ Classify
    \/ StoreState
    \/ Return

SpecNoFail == Init /\ [][NextNoFail]_vars /\ WF_vars(WalkPage)

\* ------------------------------------------------------- PrintReleaseNotes
\* lines 31-38
releaseNotes ==
    ("release-note/major" :> "**Major Changes:**")
    @@ ("release-note/minor" :> "**Minor Changes:**")
    @@ ("release-note/bug" :> "**Bugfixes:**")
    @@ ("release-note/ci" :> "**CI Changes:**")
    @@ ("release-note/misc" :> "**Misc Changes:**")
    @@ ("release-note/none" :> "**Other Changes:**")

\* lines 40-47 with two entries exchanged
releaseNotesOrderSwapped ==
    <<"release-note/major", "release-note/bug", "release-note/minor",
      "release-note/ci", "release-note/misc", "release-note/none">>

\* lines 40-47
releaseNotesOrder ==
    <<"release-note/major", "release-note/minor", "release-note/bug",
      "release-note/ci", "release-note/misc", "release-note/none">>

\* a release label GeneratePatchRelease may give that is in neither table
OtherLabel == "release-note/unknown"

PRLabels == DOMAIN releaseNotes \cup {OtherLabel}

\* pull request numbers: upstream and flat PRs, and backport PRs
PRIDs == {1, 2}

BackportIDs == {3, 4}

\* strings, as the sequences of their characters
Branch10 == <<"v", "1", ".", "0">>

Branch11 == <<"v", "1", ".", "1">>

BranchLists == {<<>>, <<Branch11>>, <<Branch11, Branch10>>}

LastStables == {<<>>, <<"1", ".", "0">>}

\* strings.Contains (line 215)
Contains(str, sub) ==
    \E k \in 0..(Len(str) - Len(sub)) : SubSeq(str, k + 1, k + Len(sub)) = sub

Restrict(f, S) == [x \in S |-> f[x]]

\* one written line: a title, an empty line, a header, or an item
\* ("* note (Backport PR #b, Upstream PR #p, @author)" or "* note (#p, @author)")
Line(kind, text, note, backportPR, prID) ==
    [kind |-> kind, text |-> text, note |-> note, backportPR |-> backportPR,
     prID |-> prID]

\* lines 202-203
BackportItem(pr, backportPR, prID) ==
    Line("backport", "", pr.note, backportPR, prID)

\* lines 231 and 262
FlatItem(pr, prID) == Line("flat", "", pr.note, 0, prID)

\* strings.ToLower(a) < strings.ToLower(b) (lines 236, 267) on two items: the
\* note decides, then "(#" sorts before "(backport pr #", then the numbers
ItemKey(item) ==
    <<item.note, IF item.kind = "flat" THEN 0 ELSE 1, item.backportPR,
      item.prID>>

RECURSIVE TupleLess(_, _)
TupleLess(a, b) ==
    IF a = <<>> \/ b = <<>> THEN FALSE
    ELSE IF Head(a) # Head(b) THEN Head(a) < Head(b)
    ELSE TupleLess(Tail(a), Tail(b))

ItemLess(a, b) == TupleLess(ItemKey(a), ItemKey(b))

\* sort.Slice (lines 235-237, 266-268) on the accumulated changelogItems
RECURSIVE SortItems(_)
SortItems(items) ==
    IF items = {} THEN <<>>
    ELSE LET first == CHOOSE a \in items :
                         \A b \in items \ {a} : ~ItemLess(b, a)
         IN <<first>> \o SortItems(items \ {first})

\* lines 189-193: the entries of the inner mappings with the label, as
\* <<backport PR, upstream PR>>
InnerMatches(bp, label) ==
    UNION {{<<b, u>> : u \in {x \in DOMAIN bp[b] : bp[b][x].label = label}} :
           b \in DOMAIN bp}

\* lines 189-207 with an upstream PR taken once, under its first backport PR
InnerEmittedOncePerUpstream(bp, label) ==
    {m \in InnerMatches(bp, label) :
        \A n \in InnerMatches(bp, label) : n[2] = m[2] => n[1] >= m[1]}

\* lines 189-207: the entries emitted and deleted by the first scan
InnerEmitted(bp, label) == InnerMatches(bp, label)

\* the first scan without line 205
DeleteInnerKeeps(bp, pairs) == bp

\* line 205
DeleteInner(bp, pairs) ==
    [b \in DOMAIN bp |->
        Restrict(bp[b], {u \in DOMAIN bp[b] : <<b, u>> \notin pairs})]

\* lines 212-218 with the branch name compared by == in place of
\* strings.Contains
BackportedExact(pr, stable) ==
    /\ Len(stable) # 0
    /\ \E i \in 1..Len(pr.branches) : pr.branches[i] = stable

\* lines 212-218
Backported(pr, stable) ==
    /\ Len(stable) # 0
    /\ \E i \in 1..Len(pr.branches) : Contains(pr.branches[i], stable)

\* lines 208-211 with a label of neither table taken as "release-note/none"
FlatMatchesCatchAll(flat, label) ==
    {p \in DOMAIN flat :
        \/ flat[p].label = label
        \/ label = "release-note/none"
              /\ flat[p].label \notin DOMAIN releaseNotes}

\* lines 208-211: the flat entries with the label
FlatMatches(flat, label) == {p \in DOMAIN flat : flat[p].label = label}

\* lines 208-234: the flat entries emitted and deleted by the second scan
FlatEmitted(flat, label, stable) ==
    {p \in FlatMatches(flat, label) : ~Backported(flat[p], stable)}

\* line 233 moved above the last-stable test: skipped entries deleted too
FlatDeletedAll(flat, label, stable) == FlatMatches(flat, label)

\* line 233: the flat entries deleted by the second scan, the emitted ones
\* (a skipped entry leaves the iteration at line 220, before the delete)
FlatDeleted(flat, label, stable) == FlatEmitted(flat, label, stable)

\* lines 194-198 and 223-227: the empty line and the header, once, with the
\* first item
HeaderLines(label, items) ==
    IF items = {} THEN <<>>
    ELSE <<Line("blank", "", 0, 0, 0),
          Line("header", releaseNotes[label], 0, 0, 0)>>

\* lines 256-259: the header alone, no line end
LeftoverHeader(label, items) ==
    IF items = {} THEN <<>>
    ELSE <<Line("header", releaseNotes[label], 0, 0, 0)>>

\* the ChangeLogs PrintReleaseNotes is called on: a PR has one release label
\* and one note wherever it appears; at most MaxEntries entries in all
NoteOf == (1 :> 2) @@ (2 :> 1)

FlatChoices ==
    {[present |-> FALSE, branches |-> <<>>]}
    \cup [present : {TRUE}, branches : BranchLists]

EntryCount(flatOf, inOf) ==
    Cardinality({p \in PRIDs : flatOf[p].present})
    + Cardinality({<<b, p>> \in BackportIDs \X PRIDs : b \in inOf[p]})

MakeFlat(labelOf, flatOf) ==
    [p \in {x \in PRIDs : flatOf[x].present} |->
        PR(labelOf[p], flatOf[p].branches, NoteOf[p])]

MakeBackports(labelOf, inOf) ==
    [b \in {x \in BackportIDs : \E p \in PRIDs : x \in inOf[p]} |->
        [p \in {x \in PRIDs : b \in inOf[x]} |->
            PR(labelOf[p], <<>>, NoteOf[p])]]

ChangeLogs ==
    {[bp |-> MakeBackports(labelOf, inOf), flat |-> MakeFlat(labelOf, flatOf)] :
        <<labelOf, flatOf, inOf>> \in
            {t \in [PRIDs -> PRLabels]
                   \X [PRIDs -> FlatChoices]
                   \X [PRIDs -> SUBSET BackportIDs] :
                EntryCount(t[2], t[3]) <= MaxEntries}}

\* a ChangeLog returned by GenerateReleaseNotes, before PrintReleaseNotes
InitPrint ==
    /\ hist = 0
    /\ pageSize = 1
    /\ stateFile = NoFile
    /\ pc = "done"
    /\ cfgHead = hist
    /\ cont = FALSE
    /\ prevHead = EmptySHA
    /\ shas = <<>>
    /\ backportPRs = EmptyMap
    /\ listOfPRs = EmptyMap
    /\ leftShas = <<>>
    /\ err = FALSE
    /\ err2 = FALSE
    /\ result = "ChangeLog"
    /\ log = <<>>
    /\ lastStable \in LastStables
    /\ given \in ChangeLogs
    /\ prsWithUpstream = given.bp
    /\ listOfPrs = given.flat
    /\ printPc = "title"
    /\ labelIdx = 0
    /\ stdout = <<>>
    /\ stderr = <<>>
    /\ printCalls = 1
    /\ mark = <<0, 0>>
    /\ cfg = NoConfig
    /\ sanPc = "idle"
    /\ sanErr = NoResult
    /\ target = <<>>

\* lines 183-184
PrintTitle ==
    /\ UNCHANGED <<printCalls, mark, sanVars>>
    /\ printPc = "title"
    /\ stdout' = stdout \o <<Line("text", "Summary of Changes", 0, 0, 0),
                            Line("text", "------------------", 0, 0, 0)>>
    /\ printPc' = "main"
    /\ labelIdx' = 1
    /\ UNCHANGED <<genVars, lastStable, given, stderr>>

\* lines 186-241: one iteration of the loop over releaseNotesOrder
MainCategory ==
    /\ UNCHANGED <<printCalls, mark, sanVars>>
    /\ printPc = "main"
    /\ LET releaseLabel == releaseNotesOrder[labelIdx]
           inner == InnerEmitted(prsWithUpstream, releaseLabel)
           flat == FlatEmitted(listOfPrs, releaseLabel, lastStable)
           changelogItems ==
               {BackportItem(prsWithUpstream[m[1]][m[2]], m[1], m[2]) :
                    m \in inner}
               \cup {FlatItem(listOfPrs[p], p) : p \in flat}
       IN /\ prsWithUpstream' = DeleteInner(prsWithUpstream, inner)
          /\ listOfPrs' =
                Restrict(listOfPrs,
                         DOMAIN listOfPrs
                             \ FlatDeleted(listOfPrs, releaseLabel, lastStable))
          /\ stdout' = stdout \o HeaderLines(releaseLabel, changelogItems)
                              \o SortItems(changelogItems)
    /\ IF labelIdx < Len(releaseNotesOrder)
       THEN labelIdx' = labelIdx + 1 /\ printPc' = "main"
       ELSE labelIdx' = 0 /\ printPc' = "check"
    /\ UNCHANGED <<hist, pageSize, stateFile, pc, cfgHead, cont, prevHead,
                   shas, backportPRs, listOfPRs, leftShas, err, err2, result,
                   log, lastStable, given, stderr>>

\* lines 243-247: nothing left, or the notice on os.Stderr
LeftoverCheck ==
    /\ UNCHANGED <<printCalls, mark, sanVars>>
    /\ printPc = "check"
    /\ IF DOMAIN listOfPrs = {}
       THEN /\ printPc' = "returned"
            /\ UNCHANGED <<stderr, labelIdx>>
       ELSE /\ stderr' = Append(stderr, Line("notice", "NOTICE", 0, 0, 0))
            /\ printPc' = "leftover"
            /\ labelIdx' = 1
    /\ UNCHANGED <<genVars, lastStable, given, stdout>>

\* lines 249-272: one iteration of the second loop over releaseNotesOrder
LeftoverCategory ==
    /\ UNCHANGED <<printCalls, mark, sanVars>>
    /\ printPc = "leftover"
    /\ LET releaseLabel == releaseNotesOrder[labelIdx]
           flat == FlatMatches(listOfPrs, releaseLabel)
           changelogItems == {FlatItem(listOfPrs[p], p) : p \in flat}
       IN /\ listOfPrs' = Restrict(listOfPrs, DOMAIN listOfPrs \ flat)
          /\ stderr' = stderr \o LeftoverHeader(releaseLabel, changelogItems)
                              \o SortItems(changelogItems)
    /\ IF labelIdx < Len(releaseNotesOrder)
       THEN labelIdx' = labelIdx + 1 /\ printPc' = "leftover"
       ELSE labelIdx' = 0 /\ printPc' = "returned"
    /\ UNCHANGED <<hist, pageSize, stateFile, pc, cfgHead, cont, prevHead,
                   shas, backportPRs, listOfPRs, prsWithUpstream, leftShas,
                   err, err2, result, log, lastStable, given, stdout>>

\* a second call of PrintReleaseNotes on the same ChangeLog
PrintAgain ==
    /\ printPc = "returned"
    /\ printCalls = 1
    /\ printCalls' = 2
    /\ mark' = <<Len(stdout), Len(stderr)>>
    /\ printPc' = "title"
    /\ UNCHANGED <<genVars, sanVars, lastStable, given, labelIdx, stdout,
                   stderr>>

NextPrint ==
    \/ PrintTitle
    \/ MainCategory
    \/ LeftoverCheck
    \/ LeftoverCategory
    \/ PrintAgain

SpecPrint == InitPrint /\ [][NextPrint]_vars

\* ----------------------------------------------------------- Config.Sanitize
\* strings.Split(str, sep) for a separator of one character (line 68)
RECURSIVE Split(_, _)
Split(str, sep) ==
    LET at == {i \in 1..Len(str) : str[i] = sep}
    IN IF at = {} THEN <<str>>
       ELSE LET i == CHOOSE x \in at : \A y \in at : x <= y
            IN <<SubSeq(str, 1, i - 1)>>
                   \o Split(SubSeq(str, i + 1, Len(str)), sep)

\* lines 67-88: the error returned, and the receiver cfg as the method leaves
\* it (the method's own copy: the receiver is a value)
Sanitize(c) ==
    LET ownerRepo == Split(c.RepoName, "/")
    IN IF Len(ownerRepo) # 2
       THEN [err |-> "Invalid repo name", cfg |-> c]
       ELSE LET set == [c EXCEPT !.Owner = ownerRepo[1], !.Repo = ownerRepo[2]]
            IN [cfg |-> set,
                err |->
                    IF Len(c.Base) = 0 /\ Len(c.CurrVer) = 0
                    THEN "--base can't be empty"
                    ELSE IF Len(c.Head) = 0 /\ Len(c.CurrVer) = 0
                    THEN "--head can't be empty"
                    ELSE IF Len(c.StateFile) = 0
                    THEN "--state-file can't be empty"
                    ELSE IF Contains(c.LastStable, <<"v">>)
                    THEN "--last-stable can't contain letters"
                    ELSE "nil"]

\* the Configs Sanitize is called on: Owner and Repo unset
RepoNames == SeqsUpTo({"o", "/"}, MaxName)

Configs ==
    [RepoName : RepoNames, Owner : {<<>>}, Repo : {<<>>},
     Base : {<<>>, <<"b">>}, Head : {<<>>, <<"h">>},
     CurrVer : {<<>>, <<"1">>}, StateFile : {<<>>, <<"f">>},
     LastStable : {<<>>, <<"1", ".", "0">>, <<"0", ".", "9", "v">>}]

InitSanitize ==
    /\ hist = 0
    /\ pageSize = 1
    /\ stateFile = NoFile
    /\ pc = "start"
    /\ cfgHead = hist
    /\ cont = FALSE
    /\ prevHead = EmptySHA
    /\ shas = <<>>
    /\ backportPRs = EmptyMap
    /\ listOfPRs = EmptyMap
    /\ prsWithUpstream = EmptyMap
    /\ listOfPrs = EmptyMap
    /\ leftShas = <<>>
    /\ err = FALSE
    /\ err2 = FALSE
    /\ result = NoResult
    /\ log = <<>>
    /\ lastStable = <<>>
    /\ given = [bp |-> EmptyMap, flat |-> EmptyMap]
    /\ printPc = "idle"
    /\ labelIdx = 0
    /\ stdout = <<>>
    /\ stderr = <<>>
    /\ printCalls = 0
    /\ mark = <<0, 0>>
    /\ cfg \in Configs
    /\ sanPc = "start"
    /\ sanErr = NoResult
    /\ target = <<>>

\* the caller's cfg.Sanitize(): cfg is passed by value (line 67), so what the
\* method assigns to its receiver does not reach the caller's cfg
CallSanitize ==
    /\ sanPc = "start"
    /\ sanErr' = Sanitize(cfg).err
    /\ cfg' = cfg
    /\ sanPc' = "returned"
    /\ UNCHANGED <<genVars, printVars, target>>

\* GenerateReleaseNotes(cfg) after a nil error: lines 117-118 hand cfg.Owner
\* and cfg.Repo to CompareCommits
CompareAfterSanitize ==
    /\ sanPc = "returned"
    /\ sanErr = "nil"
    /\ target' = <<cfg.Owner, cfg.Repo>>
    /\ sanPc' = "compared"
    /\ UNCHANGED <<genVars, printVars, cfg, sanErr>>

NextSanitize ==
    \/ CallSanitize
    \/ CompareAfterSanitize

SpecSanitize == InitSanitize /\ [][NextSanitize]_vars

\* ------------------------------------------------------------ properties
\* the run walked the commits (no state file was loaded)
WalkRun == Calls("LoadState") = {}

\* the walk left its loop by the break of line 127
WalkEnded == WalkRun /\ pc \in {"classify", "store", "return"}

History == Ascending(1, hist)

\* C1: the list the walk produces is the full base..head history, head
\* first, nothing omitted and nothing repeated, for every page size
C1_WalkComplete == WalkEnded => shas = Reverse(History)

C3_StallSound ==
    WalkEnded => (Last(shas) = 1 /\ \A c \in 1..hist : c \in Range(shas))

\* C4: when a CompareCommits call fails the run returns the error without
\* a retry and the identifiers accumulated so far went through StoreState
C4_WalkErrorPersisted ==
    result = "WalkError" =>
        /\ Last(log).call = "CompareCommits"
        /\ \E i \in Calls("StoreState") : log[i].args[3] = shas

\* C5: every run calls StoreState exactly once, after GeneratePatchRelease
\* has returned and before the run returns
C5_StoreOncePerRun ==
    /\ pc = "store" => result = NoResult
    /\ result # NoResult =>
          /\ Cardinality(Calls("StoreState")) = 1
          /\ \A i \in Calls("StoreState") :
                \E j \in Calls("GeneratePatchRelease") : j < i

\* C6: after the classifier has run, the run returns the classification
\* error exactly when the classifier failed and the ChangeLog otherwise,
\* whether StoreState failed or not
C6_StoreNeverMasks ==
    pc = "done" =>
        /\ result = "ClassificationError"
              <=> (Calls("GeneratePatchRelease") # {} /\ err)
        /\ (Calls("GeneratePatchRelease") # {} /\ ~err) => result = "ChangeLog"

C6_Witness ==
    /\ pc = "done"
    /\ err /\ err2
    /\ result = "ClassificationError"

\* C7: a run that loads a state file calls CompareCommits never and calls
\* GeneratePatchRelease with exactly the mappings and the commit list of
\* that file
C7_ResumeUsesStored ==
    [][(~WalkRun /\ pc = "classify" /\ pc' = "store") =>
          /\ Calls("CompareCommits") = {}
          /\ Last(log').call = "GeneratePatchRelease"
          /\ Last(log').args = <<stateFile.bp, stateFile.prs, stateFile.shas>>
          /\ Calls("CompareCommits")' = {}]_vars

C7_Witness ==
    /\ ~WalkRun
    /\ pc = "store"
    /\ hist > 0
    /\ Len(shas) = 2
    /\ backportPRs # EmptyMap
    /\ listOfPRs # EmptyMap

\* ------------------------------------------ properties of PrintReleaseNotes
Recognized(label) == label \in DOMAIN releaseNotes

FlatLines(out, p) ==
    {i \in 1..Len(out) : out[i].kind = "flat" /\ out[i].prID = p}

BackportLines(out, b, u) ==
    {i \in 1..Len(out) :
        out[i].kind = "backport" /\ out[i].backportPR = b /\ out[i].prID = u}

Headers(out) == {i \in 1..Len(out) : out[i].kind = "header"}

Items(out) == {i \in 1..Len(out) : out[i].kind \in {"flat", "backport"}}

Greatest(S) == CHOOSE x \in S : \A y \in S : y <= x

\* the header line i stands under, "" when there is none
HeaderAbove(out, i) ==
    LET above == {h \in Headers(out) : h < i}
    IN IF above = {} THEN "" ELSE out[Greatest(above)].text

\* a flat PR backported to a branch whose name includes the last-stable string
OnLastStable(pr) ==
    /\ lastStable # <<>>
    /\ \E i \in 1..Len(pr.branches) : Contains(pr.branches[i], lastStable)

Excluded == {p \in DOMAIN given.flat :
                Recognized(given.flat[p].label) /\ OnLastStable(given.flat[p])}

C9_OneLinePerPair ==
    printPc = "returned" =>
        /\ \A b \in DOMAIN given.bp : \A u \in DOMAIN given.bp[b] :
              Recognized(given.bp[b][u].label) =>
                  Cardinality(BackportLines(stdout, b, u)) = 1
        /\ \A i \in 1..Len(stdout) :
              stdout[i].kind = "backport" =>
                  /\ stdout[i].backportPR \in DOMAIN given.bp
                  /\ stdout[i].prID \in DOMAIN given.bp[stdout[i].backportPR]

\* an upstream PR under two backport PRs: two lines
C9_Witness ==
    /\ printPc = "returned"
    /\ \E u \in PRIDs :
          /\ \A b \in BackportIDs : b \in DOMAIN given.bp /\ u \in DOMAIN given.bp[b]
          /\ Recognized(given.bp[3][u].label)
          /\ Cardinality(UNION {BackportLines(stdout, b, u) : b \in BackportIDs}) = 2

\* the display order the sections are to follow
DisplayOrder ==
    <<"release-note/major", "release-note/minor", "release-note/bug",
      "release-note/ci", "release-note/misc", "release-note/none">>

Position(label) == CHOOSE k \in 1..Len(DisplayOrder) : DisplayOrder[k] = label

\* the category of a header or item line of stdout, as its place in the order
Section(i) ==
    IF stdout[i].kind = "header"
    THEN Position(CHOOSE l \in DOMAIN releaseNotes :
                      releaseNotes[l] = stdout[i].text)
    ELSE IF stdout[i].kind = "flat"
    THEN Position(given.flat[stdout[i].prID].label)
    ELSE Position(given.bp[stdout[i].backportPR][stdout[i].prID].label)

\* C10: the sections of stdout follow the order major, minor, bug, ci, misc,
\* none; a category has a header exactly when it has an item, at most one,
\* before its items and after the items of the categories before it
C10_SectionOrder ==
    LET ranked == Headers(stdout) \cup Items(stdout)
    IN /\ \A i, j \in ranked : i < j => Section(i) <= Section(j)
       /\ \A k \in 1..Len(DisplayOrder) :
             /\ Cardinality({h \in Headers(stdout) : Section(h) = k}) <= 1
             /\ (\E h \in Headers(stdout) : Section(h) = k)
                    <=> (\E i \in Items(stdout) : Section(i) = k)
       /\ \A h \in Headers(stdout) : \A i \in Items(stdout) :
             Section(h) = Section(i) => h < i

C10_Witness ==
    /\ printPc = "returned"
    /\ Cardinality(Headers(stdout)) >= 2
    /\ Cardinality(Items(stdout)) >= 3

\* ------------------------------------------------- properties of the walk
\* the page the last CompareCommits call returned
LastPage == PageCompare(Last(log).args[1], pageSize)

\* C12: after an iteration that does not end the walk, the next head is the
\* first (oldest) entry of the page just processed, and it is in shas
C12_NextHeadIsFirstOfPage ==
    (WalkRun /\ pc = "walk" /\ cont) =>
        /\ cfgHead = LastPage[1]
        /\ cfgHead \in Range(shas)

\* C17: with CompareCommits never failing the loop makes finitely many calls
\* (at most one per commit, and two at least) and is left
C17_WalkTerminates ==
    /\ [](WalkRun => Cardinality(Calls("CompareCommits")) <= hist + 2)
    /\ [](pc = "walk" => Len(log) < MaxCalls)
    /\ (pc = "walk" ~> pc # "walk")

C17_Witness ==
    /\ WalkEnded
    /\ pageSize < hist
    /\ Cardinality(Calls("CompareCommits")) = hist

\* C18: no index of the walk is out of range: the loop ends by the break of
\* line 127 or by a returned error, never by a runtime fault
C18_NoIndexFault == pc # "panic"

\* --------------------------- properties of the mappings PrintReleaseNotes uses
\* the categories whose scan of the first loop is over
Scanned ==
    IF printPc = "main" THEN {DisplayOrder[k] : k \in 1..(labelIdx - 1)}
    ELSE IF printPc = "check" THEN Range(DisplayOrder)
    ELSE {}

FirstCall == printCalls = 1

\* C13 as claimed: a flat PR whose label was scanned is gone from the flat
\* mapping, emitted or skipped, so none with a recognized label is left
\* after the first loop
C13_MatchingAlwaysRemoved ==
    FirstCall =>
        \A p \in DOMAIN listOfPrs : listOfPrs[p].label \notin Scanned

\* C13 as the code has it: a flat PR whose label was scanned is gone from the
\* flat mapping exactly when it was emitted; one skipped as backported to the
\* last-stable branch stays until the second loop
C13_EmittedRemovedSkippedKept ==
    FirstCall =>
        \A p \in DOMAIN given.flat :
            given.flat[p].label \in Scanned =>
                (p \in DOMAIN listOfPrs <=> OnLastStable(given.flat[p]))

C13_Witness ==
    /\ FirstCall
    /\ printPc = "check"
    /\ Excluded # {}
    /\ Excluded \subseteq DOMAIN listOfPrs
    /\ \E p \in DOMAIN given.flat :
          Recognized(given.flat[p].label) /\ p \notin DOMAIN listOfPrs

NoticeWritten == \E i \in 1..Len(stderr) : stderr[i].kind = "notice"

\* C14: after the first loop the flat mapping holds exactly the PRs excluded
\* as backported to the last-stable branch, and the notice is written exactly
\* when there is such a PR
C14_LeftoverIsExcluded ==
    /\ (FirstCall /\ printPc = "check") => DOMAIN listOfPrs = Excluded
    /\ (FirstCall /\ printPc = "returned") => (NoticeWritten <=> Excluded # {})

\* C15: a PR emitted from an inner mapping has no line from the scan of the
\* flat mapping, also when its number is a key of both
C15_NoReemission ==
    printPc = "returned" =>
        \A b \in DOMAIN given.bp : \A u \in DOMAIN given.bp[b] :
            BackportLines(stdout, b, u) # {} => FlatLines(stdout, u) = {}

\* C16: a PR whose label is none of the six has no line on stdout or stderr
\* and stays in its mapping
C16_UnrecognizedDropped ==
    /\ \A p \in DOMAIN given.flat :
          ~Recognized(given.flat[p].label) =>
              /\ FlatLines(stdout, p) = {}
              /\ FlatLines(stderr, p) = {}
              /\ p \in DOMAIN listOfPrs
    /\ \A b \in DOMAIN given.bp : \A u \in DOMAIN given.bp[b] :
          ~Recognized(given.bp[b][u].label) =>
              /\ BackportLines(stdout, b, u) = {}
              /\ b \in DOMAIN prsWithUpstream
              /\ u \in DOMAIN prsWithUpstream[b]

C16_Witness ==
    /\ printPc = "returned"
    /\ \E p \in DOMAIN given.flat : ~Recognized(given.flat[p].label)
    /\ \E b \in DOMAIN given.bp : \E u \in DOMAIN given.bp[b] :
          ~Recognized(given.bp[b][u].label)
    /\ Items(stdout) # {}

\* the header and item lines written since the last call began
Since(out, from) == {i \in Headers(out) \cup Items(out) : i > from}

\* C19: when a call has returned no PR with a recognized label is left in
\* the flat mapping or in an inner mapping, and a second call writes no item
\* and no header
C19_InputConsumed ==
    /\ printPc = "returned" =>
          /\ \A p \in DOMAIN listOfPrs : ~Recognized(listOfPrs[p].label)
          /\ \A b \in DOMAIN prsWithUpstream :
                \A u \in DOMAIN prsWithUpstream[b] :
                    ~Recognized(prsWithUpstream[b][u].label)
    /\ printCalls = 2 =>
          /\ Since(stdout, mark[1]) = {}
          /\ Since(stderr, mark[2]) = {}

C19_Witness ==
    /\ printCalls = 2
    /\ printPc = "returned"
    /\ \E i \in Items(stdout) : stdout[i].kind = "backport"
    /\ \E i \in Items(stdout) : stdout[i].kind = "flat"
    /\ Items(stderr) # {}

\* ------------------------------------------------ properties of Sanitize
Slashes(name) == {i \in 1..Len(name) : name[i] = "/"}

\* owner/name: one "/", with something before it and something after it
TwoNonEmptyParts(name) ==
    /\ Cardinality(Slashes(name)) = 1
    /\ 1 \notin Slashes(name)
    /\ Len(name) \notin Slashes(name)

\* C11: Sanitize returns the repo-name error exactly for the names that do
\* not split on "/" into two non-empty parts
C11_RepoNameValidated ==
    sanPc = "returned" =>
        (sanErr = "Invalid repo name" <=> ~TwoNonEmptyParts(cfg.RepoName))

\* C20: after Sanitize returned nil the caller's cfg.Owner and cfg.Repo are
\* the two parts of cfg.RepoName, and CompareCommits is called with them
C20_SanitizeSetsOwnerRepo ==
    (sanPc \in {"returned", "compared"} /\ sanErr = "nil") =>
        /\ cfg.Owner = Split(cfg.RepoName, "/")[1]
        /\ cfg.Repo = Split(cfg.RepoName, "/")[2]
        /\ sanPc = "compared" =>
              target = <<Split(cfg.RepoName, "/")[1], Split(cfg.RepoName, "/")[2]>>

====
